---- MODULE Spec2Model ----
(***************************************************************************)
(* Model of the proton propagation engine of SimProp-Sirente:              *)
(* examples/evolveProtons.cpp (class Evolutor), with the pair-production   *)
(* loss rate of src/energyLosses/PairProductionLosses.cpp.                 *)
(*                                                                         *)
(* Arithmetic is fixed point.  Redshift is counted in grid units, ZOne of  *)
(* them making a redshift of 1; functions of redshift that the quadrature  *)
(* evaluates at the half step take their argument in half units.  A loss   *)
(* fraction (deltaGamma) is counted in 1/DGOne.  Divisions truncate.       *)
(* Products and differences are exact: the absorption of a very small step *)
(* by a double (z - dz == z) is not modelled.                              *)
(***************************************************************************)
EXTENDS Integers, Sequences, FiniteSets

(***************************************************************************)
(* Bounds of the model.                                                    *)
(***************************************************************************)
\* largest initial redshift, in grid units
MaxZ == 4
\* largest initial Lorentz factor, in units of minPropagatingGamma / 4
MaxGamma == 20
\* largest population the model lets a final state grow the stack to
MaxStack == 3
\* largest number of particles in one final state
MaxProducts == 2

(***************************************************************************)
(* Fixed-point units and the constants of the program.                     *)
(***************************************************************************)
\* grid units in a redshift of 1 (Redshift(1.) in main)
ZOne == 8
\* half units in a redshift of 1
HalfOne == 2 * ZOne
\* the 1. of "1. - deltaGamma", in units of a loss fraction
DGOne == 1000
\* const double deltaGammaCritical = 0.1
deltaGammaCritical == 100
\* const double minPropagatingGamma = 1e7
minPropagatingGamma == 4
\* the redshift floor 1e-20 of IsActive: below one grid unit
redshiftFloor == 0
\* rootFinder(..., 100, 1e-5): the iteration budget and the tolerance
rootMaxIter == 100
rootTolerance == 2
\* a double's +infinity (1. / 0.) and NaN (infinity * 0.)
Infinity == 1000000
NaN == 0 - Infinity

Abs(x) == IF x < 0 THEN 0 - x ELSE x
Max(a, b) == IF a < b THEN b ELSE a

(***************************************************************************)
(* Particles.  PID: a proton is a nucleus of charge 1, a pion is not a     *)
(* nucleus.                                                                *)
(***************************************************************************)
proton == "proton"
pion == "pion"
PIDs == {proton, pion}

Particle(pid, z, Gamma) == [pid |-> pid, z |-> z, Gamma |-> Gamma]

IsNucleus(pid) == pid = proton

getPidNucleusCharge(pid) == IF pid = proton THEN 1 ELSE 0

\* evolveProtons.cpp:7-10
IsActive(p) ==
    IsNucleus(p.pid) /\ p.z > redshiftFloor /\ p.Gamma > minPropagatingGamma

\* std::count_if(m_stack.begin(), m_stack.end(), IsActive)
CountActive(stack) == Cardinality({i \in 1..Len(stack) : IsActive(stack[i])})

\* selects m_stack.begin() whether it is Active or not
FindActive_Begin(stack) == 1

\* std::find_if(m_stack.begin(), m_stack.end(), IsActive): the first Active
\* index; Len + 1 stands for end()
FindActive(stack) ==
    IF \E i \in 1..Len(stack) : IsActive(stack[i])
    THEN CHOOSE i \in 1..Len(stack) :
            IsActive(stack[i]) /\ \A j \in 1..(i - 1) : ~IsActive(stack[j])
    ELSE Len(stack) + 1

(***************************************************************************)
(* State.                                                                  *)
(***************************************************************************)
VARIABLES
    m_stack,              \* ParticleStack: the population, in vector order
    m_continuousLosses,   \* the configured loss processes, in vector order
    m_pppcmb,             \* the photo-pion interaction: its rate
    out,                  \* utils::OutputFile: the records written so far
    nActive,              \* the local nActive of run()
    pc,                   \* where run() is: "loop", "done" or "aborted"
    last,                 \* what the latest iteration of run() computed
    m_particles,          \* SimProp: the population, in vector order
    particleIt,           \* the local iterator it of SimProp::run
    simPc,                \* where SimProp::run is
    evolved               \* what the latest call of Evolve was made on

\* the state of the Evolutor of evolveProtons.cpp and of SimProp
evolutorVars == <<m_stack, m_continuousLosses, m_pppcmb, out, nActive, pc, last>>
simPropVars == <<m_particles, particleIt, simPc, evolved>>

vars == <<m_stack, m_continuousLosses, m_pppcmb, out, nActive, pc, last,
          m_particles, particleIt, simPc, evolved>>

(***************************************************************************)
(* Collaborators of the engine.                                            *)
(***************************************************************************)
\* the numerator of the time-per-redshift Jacobian
DtdzOne == 32

\* cosmo::Cosmology::dtdz, positive for z >= 0; z in grid units
dtdz(z) == 1 + DtdzOne \div (ZOne + z)

\* the loss processes a configuration can hold
PairProduction(I) == [kind |-> "PairProductionLosses", I |-> I]
Adiabatic == [kind |-> "AdiabaticContinuousLosses", I |-> 0]

\* constexpr auto factor of PairProductionLosses::dotGamma
factor == 1

\* PairProductionLosses::dotGamma: factor * I / Gamma, I the integral of
\* phi(k)/k * density over the photon fields
dotGamma(I, Gamma) == (factor * I) \div Gamma

pow2(x) == x * x
pow3(x) == x * x * x

\* the rate without its clamp to >= 0
PairProduction_dlnGamma_dt_Unclamped(I, pid, Gamma, zh) ==
    LET b_l == (pow3(HalfOne + zh)
                  * dotGamma(I, (Gamma * (HalfOne + zh)) \div HalfOne))
               \div pow3(HalfOne)
        Z == getPidNucleusCharge(pid)
        A == getPidNucleusCharge(pid)
    IN  IF A = 0 THEN NaN
        ELSE (b_l * pow2(Z)) \div A

\* PairProductionLosses::dlnGamma_dt; zh is the redshift in half units, so
\* 1 + z is (HalfOne + zh) / HalfOne
PairProduction_dlnGamma_dt(I, pid, Gamma, zh) ==
    LET b_l == (pow3(HalfOne + zh)
                  * dotGamma(I, (Gamma * (HalfOne + zh)) \div HalfOne))
               \div pow3(HalfOne)
        Z == getPidNucleusCharge(pid)
        A == getPidNucleusCharge(pid)
    IN  IF A = 0 THEN NaN
        ELSE Max((b_l * pow2(Z)) \div A, 0)

\* the numerator of the adiabatic rate
AdiabaticOne == 160

\* AdiabaticContinuousLosses::dlnGamma_dt: the expansion rate, positive and
\* falling with 1 + z
Adiabatic_dlnGamma_dt(pid, Gamma, zh) == AdiabaticOne \div (HalfOne + zh)

\* losses->dlnGamma_dt(pid, Gamma, z): the virtual call
dlnGamma_dt(losses, pid, Gamma, zh) ==
    IF losses.kind = "PairProductionLosses"
    THEN PairProduction_dlnGamma_dt(losses.I, pid, Gamma, zh)
    ELSE Adiabatic_dlnGamma_dt(pid, Gamma, zh)

\* interactions::PhotoPionProduction::rate: interactions per unit time
rate(pid, Gamma, z) == m_pppcmb

\* the 1. of "1. / rate / dtdz", in grid units of redshift
LambdaOne == 48

\* the uniform draws r = k / 3 of m_rng(), k in RandomNumbers; 0 included
RandomNumbers == 0..2
\* the scale of the logarithm
LogOne == 100
\* std::log(1. - r)
log1m(k) == <<0, -41, -110>>[k + 1]

RECURSIVE SumSeq(_)
SumSeq(s) == IF s = <<>> THEN 0 ELSE Head(s) + SumSeq(Tail(s))

(***************************************************************************)
(* Evolutor.                                                               *)
(***************************************************************************)
\* evolveProtons.cpp:52-60
computeStochasticRedshiftInterval(particle, r) ==
    LET pid == particle.pid
        zNow == particle.z
        Gamma == particle.Gamma
        dtdzNow == dtdz(zNow)
        rt == rate(pid, Gamma, zNow)
        lambda_s == IF rt = 0 THEN Infinity
                    ELSE Abs((LambdaOne \div rt) \div dtdzNow)
    IN  IF lambda_s = Infinity
        THEN IF log1m(r) = 0 THEN NaN ELSE Infinity
        ELSE ((0 - lambda_s) * log1m(r)) \div LogOne

\* each process overwrites the sums: only the last one of the list counts
computeDeltaGammaOf_LastProcess(continuousLosses, particle, dz) ==
    LET n == Len(continuousLosses)
        only(zh) == IF n = 0 THEN 0
                    ELSE dlnGamma_dt(continuousLosses[n], particle.pid,
                                     particle.Gamma, zh)
    IN  (dz * dtdz(particle.z)
            * (only(2 * particle.z) + 4 * only(2 * particle.z - dz)
                + only(2 * (particle.z - dz)))) \div 6

\* evolveProtons.cpp:62-76; dz in grid units, the result in 1/DGOne
computeDeltaGammaOf(continuousLosses, particle, dz) ==
    LET pid == particle.pid
        zNow == particle.z
        Gamma == particle.Gamma
        dtdzNow == dtdz(zNow)
        n == Len(continuousLosses)
        dlnGammaNow ==
            SumSeq([i \in 1..n |->
                dlnGamma_dt(continuousLosses[i], pid, Gamma, 2 * zNow)])
        dlnGammaHalf ==
            SumSeq([i \in 1..n |->
                dlnGamma_dt(continuousLosses[i], pid, Gamma, 2 * zNow - dz)])
        dlnGammaNext ==
            SumSeq([i \in 1..n |->
                dlnGamma_dt(continuousLosses[i], pid, Gamma, 2 * (zNow - dz))])
    IN  (dz * dtdzNow * (dlnGammaNow + 4 * dlnGammaHalf + dlnGammaNext)) \div 6

computeDeltaGamma(particle, dz) ==
    computeDeltaGammaOf(m_continuousLosses, particle, dz)

\* the midpoint of a bracket on the grid, rounded up: inside (lo, hi] as
\* the real midpoint is
Midpoint(lo, hi) == (lo + hi + 1) \div 2

\* utils::rootFinder: bisection of f on [xLower, xUpper], until the bracket
\* is no wider than the tolerance or the budget is spent; the result is the
\* midpoint of the last bracket.  f is a function on the grid.
RECURSIVE rootFinder(_, _, _, _, _)
rootFinder(f, xLower, xUpper, maxIter, tol) ==
    LET mid == Midpoint(xLower, xUpper)
    IN  IF xUpper - xLower <= tol \/ maxIter = 0 THEN mid
        ELSE IF f[mid] = 0 THEN mid
        ELSE IF (f[xLower] < 0) = (f[mid] < 0)
             THEN rootFinder(f, mid, xUpper, maxIter - 1, tol)
             ELSE rootFinder(f, xLower, mid, maxIter - 1, tol)

\* the root finder is called whatever the loss over the whole range is
RootFinderInvoked_Always(particle) == TRUE

\* if (deltaGamma > deltaGammaCritical), deltaGamma the loss fraction over
\* the whole remaining range
RootFinderInvoked(particle) ==
    computeDeltaGamma(particle, particle.z) > deltaGammaCritical

\* the lambda handed to the root finder
RootFunction(particle, x) ==
    computeDeltaGamma(particle, x) - deltaGammaCritical

\* the whole remaining range, whatever it costs
computeLossesRedshiftInterval_NoRoot(particle) == particle.z

\* the comparison with the threshold inverted
computeLossesRedshiftInterval_Inverted(particle) ==
    LET zNow == particle.z
        deltaGamma == computeDeltaGamma(particle, zNow)
    IN  IF deltaGamma < deltaGammaCritical
        THEN rootFinder(
                [x \in 0..zNow |->
                    computeDeltaGamma(particle, x) - deltaGammaCritical],
                0, zNow, rootMaxIter, rootTolerance)
        ELSE zNow

\* evolveProtons.cpp:78-88
computeLossesRedshiftInterval(particle) ==
    LET zNow == particle.z
    IN  IF RootFinderInvoked(particle)
        THEN rootFinder([x \in 0..zNow |-> RootFunction(particle, x)],
                        0, zNow, rootMaxIter, rootTolerance)
        ELSE zNow

\* the attenuated Lorentz factors and the secondaries a final state can hold
AttenuatedGammas(Gamma) == {(4 * Gamma) \div 5}
Secondaries(Gamma, newZ) ==
    {Particle(pion, newZ, Gamma \div 4), Particle(proton, newZ, Gamma \div 4)}

RECURSIVE SeqsUpTo(_, _)
SeqsUpTo(S, n) ==
    IF n = 0 THEN {<<>>}
    ELSE LET shorter == SeqsUpTo(S, n - 1)
         IN  shorter \cup {Append(s, x) : s \in shorter, x \in S}

\* interactions::PhotoPionProduction::finalState(particle, newZ, rng): the
\* final states the generator can sample, each the attenuated primary
\* followed by secondaries, all at redshift newZ and of lower Lorentz factor
finalState(particle, newZ) ==
    {<<Particle(particle.pid, newZ, g)>> \o rest :
        g \in AttenuatedGammas(particle.Gamma),
        rest \in SeqsUpTo(Secondaries(particle.Gamma, newZ), MaxProducts - 1)}

\* erases the first element instead of the selected one
Erase_Begin(stack, it) == Tail(stack)

\* m_stack.erase(it)
Erase(stack, it) ==
    [i \in 1..(Len(stack) - 1) |-> IF i < it THEN stack[i] ELSE stack[i + 1]]

\* the products go behind the particles already there
InsertAtEnd(stack, items) == stack \o items

\* m_stack.insert(m_stack.begin(), first, last)
InsertAtBegin(stack, items) == items \o stack

\* out << *it << " " << 0 << "\n"
Record(particle) == [particle |-> particle, marker |-> 0]

\* the sink keeps the record of the latest iteration only
WriteRecord_Truncating(sink, particle) == <<Record(particle)>>

\* operator<< on the OutputFile opened at the start of run(): the record
\* goes after the records written so far
WriteRecord(sink, particle) == Append(sink, Record(particle))

\* the assertion compiled out
AssertStochastic_Dropped(dz_s) == TRUE

\* assert(dz_s > 0.)
AssertStochastic(dz_s) == dz_s # NaN /\ dz_s > 0

\* assert(dz_c > 0. && dz_c <= nowRedshift)
AssertLosses(dz_c, nowRedshift) == dz_c > 0 /\ dz_c <= nowRedshift

\* the two branches of the if swapped
ContinuousWins_Swapped(dz_s, dz_c, nowRedshift) ==
    ~(dz_s > dz_c \/ dz_s > nowRedshift)

\* if (dz_s > dz_c || dz_s > nowRedshift)
ContinuousWins(dz_s, dz_c, nowRedshift) == dz_s > dz_c \/ dz_s > nowRedshift

\* it->getNow() = {nowRedshift - dz, Gamma * (1. - deltaGamma)}
ContinuousUpdate(particle, dz, deltaGamma) ==
    Particle(particle.pid, particle.z - dz,
             (particle.Gamma * (DGOne - deltaGamma)) \div DGOne)

NoStep == [branch |-> "none", it |-> 0, before |-> Particle(pion, 0, 0),
           r |-> 0, dz_s |-> 0, dz_c |-> 0, deltaGamma |-> 0, newZ |-> 0,
           finalState |-> <<>>]

\* SingleParticleBuilder(proton, N) with setRedshift and setGamma
buildParticleStack(z, Gamma, N) == [i \in 1..N |-> Particle(proton, z, Gamma)]

\* the N of buildParticleStack
PopulationSizes == {1, 2}

\* the photon-field integrals and interaction rates of the configurations
FieldIntegrals == {-60, 60, 1200}
PhotoPionRates == {-4, 0, 2}

\* the lists of loss processes: none built, pair production alone over a
\* field whose integral is negative, and what buildContinuousLosses builds
ContinuousLossesLists ==
    {<<>>}
    \cup {<<PairProduction(I)>> : I \in {I \in FieldIntegrals : I < 0}}
    \cup {<<PairProduction(I), Adiabatic>> : I \in FieldIntegrals}

\* no call of Evolve yet
NoEvolve == [it |-> 0, onEnd |-> FALSE, propagates |-> FALSE]

\* evolveProtons.cpp builds no SimProp object
NoSimProp ==
    /\ m_particles = <<>>
    /\ particleIt = 0
    /\ simPc = "none"
    /\ evolved = NoEvolve

Init ==
    /\ NoSimProp
    /\ \E z \in {0, MaxZ}, Gamma \in {MaxGamma}, N \in PopulationSizes :
            m_stack = buildParticleStack(z, Gamma, N)
    /\ m_continuousLosses \in ContinuousLossesLists
    /\ m_pppcmb \in PhotoPionRates
    /\ out = <<>>
    /\ nActive = CountActive(m_stack)
    /\ pc = "loop"
    /\ last = NoStep

(***************************************************************************)
(* Evolutor::run, evolveProtons.cpp:90-119: one action per way an          *)
(* iteration of the loop can end.                                          *)
(***************************************************************************)
\* an assertion fails: the record is written, nothing else happens
RunAbort ==
    /\ pc = "loop"
    /\ nActive > 0
    /\ \E r \in RandomNumbers :
        LET it == FindActive(m_stack)
            nowRedshift == m_stack[it].z
            dz_s == computeStochasticRedshiftInterval(m_stack[it], r)
            dz_c == computeLossesRedshiftInterval(m_stack[it])
        IN  /\ ~AssertStochastic(dz_s) \/ ~AssertLosses(dz_c, nowRedshift)
            /\ out' = WriteRecord(out, m_stack[it])
            /\ pc' = "aborted"
            /\ last' = [branch |-> "abort", it |-> it, before |-> m_stack[it],
                        r |-> r, dz_s |-> dz_s, dz_c |-> dz_c,
                        deltaGamma |-> 0, newZ |-> nowRedshift,
                        finalState |-> <<>>]
    /\ UNCHANGED <<m_stack, m_continuousLosses, m_pppcmb, nActive>>
    /\ UNCHANGED simPropVars

\* the continuous-loss branch
RunContinuous ==
    /\ pc = "loop"
    /\ nActive > 0
    /\ \E r \in RandomNumbers :
        LET it == FindActive(m_stack)
            nowRedshift == m_stack[it].z
            dz_s == computeStochasticRedshiftInterval(m_stack[it], r)
            dz_c == computeLossesRedshiftInterval(m_stack[it])
            deltaGamma == computeDeltaGamma(m_stack[it], dz_c)
        IN  /\ AssertStochastic(dz_s)
            /\ AssertLosses(dz_c, nowRedshift)
            /\ ContinuousWins(dz_s, dz_c, nowRedshift)
            /\ out' = WriteRecord(out, m_stack[it])
            /\ m_stack' = [m_stack EXCEPT
                             ![it] = ContinuousUpdate(m_stack[it], dz_c, deltaGamma)]
            /\ last' = [branch |-> "continuous", it |-> it, before |-> m_stack[it],
                        r |-> r, dz_s |-> dz_s, dz_c |-> dz_c,
                        deltaGamma |-> deltaGamma, newZ |-> nowRedshift - dz_c,
                        finalState |-> <<>>]
    /\ nActive' = CountActive(m_stack')
    /\ UNCHANGED <<m_continuousLosses, m_pppcmb, pc>>
    /\ UNCHANGED simPropVars

\* the stochastic branch
RunStochastic ==
    /\ pc = "loop"
    /\ nActive > 0
    /\ \E r \in RandomNumbers :
        LET it == FindActive(m_stack)
            nowRedshift == m_stack[it].z
            dz_s == computeStochasticRedshiftInterval(m_stack[it], r)
            dz_c == computeLossesRedshiftInterval(m_stack[it])
        IN  /\ AssertStochastic(dz_s)
            /\ AssertLosses(dz_c, nowRedshift)
            /\ ~ContinuousWins(dz_s, dz_c, nowRedshift)
            /\ \E fs \in finalState(m_stack[it], nowRedshift - dz_s) :
                /\ Len(m_stack) - 1 + Len(fs) <= MaxStack
                /\ m_stack' = InsertAtBegin(Erase(m_stack, it), fs)
                /\ last' = [branch |-> "stochastic", it |-> it,
                            before |-> m_stack[it], r |-> r, dz_s |-> dz_s,
                            dz_c |-> dz_c, deltaGamma |-> 0,
                            newZ |-> nowRedshift - dz_s, finalState |-> fs]
            /\ out' = WriteRecord(out, m_stack[it])
    /\ nActive' = CountActive(m_stack')
    /\ UNCHANGED <<m_continuousLosses, m_pppcmb, pc>>
    /\ UNCHANGED simPropVars

\* while (nActive > 0) ends
RunExit ==
    /\ pc = "loop"
    /\ nActive = 0
    /\ pc' = "done"
    /\ UNCHANGED <<m_stack, m_continuousLosses, m_pppcmb, out, nActive, last>>
    /\ UNCHANGED simPropVars

Next == RunAbort \/ RunContinuous \/ RunStochastic \/ RunExit

Spec == Init /\ [][Next]_vars

\* run() is a sequential loop: an iteration that can run does run
FairSpec == Spec /\ WF_vars(Next)

(***************************************************************************)
(* SimProp, simprop.cpp.  Redshift on a grid of Evolve's dz = 0.01, energy *)
(* in units of SI::eV.                                                     *)
(***************************************************************************)
\* the largest m_size and the largest redshift of buildInitialStates
MaxParticles == 2
SimMaxZ == 3

\* redshift 1.0 on the grid of Evolve's dz
SimZOne == 100
\* const double dz = 0.01
EvolveDz == 1
\* double minPropagatingEnergy = SI::eV
minPropagatingEnergy == 1
\* the energies GetRndEnergy draws: at the threshold and above it
SimEnergies == {1, 3}

\* Particle{pid, z_i, E_i}
State(z, E) == [z |-> z, E |-> E]

\* simprop.cpp:87-90
DoPropagate(p) == p.z > redshiftFloor /\ p.E > minPropagatingEnergy

\* std::find_if(m_particles.begin(), m_particles.end(), DoPropagate): the
\* first propagating index; Len + 1 stands for end()
FindPropagating(particles) ==
    IF \E i \in 1..Len(particles) : DoPropagate(particles[i])
    THEN CHOOSE i \in 1..Len(particles) :
            /\ DoPropagate(particles[i])
            /\ \A j \in 1..(i - 1) : ~DoPropagate(particles[j])
    ELSE Len(particles) + 1

\* cosmo::adiabaticRelativeLoss(z_old, z_new): (1 + z_new) / (1 + z_old),
\* applied to the energy E
adiabaticRelativeLoss(E, zOld, zNew) ==
    (E * (SimZOne + zNew)) \div (SimZOne + zOld)

\* simprop.cpp:92-99, on a particle of the population
Evolve(p) ==
    LET currentRedshift == p.z
        newRedshift == Max(currentRedshift - EvolveDz, 0)
    IN  State(newRedshift,
              adiabaticRelativeLoss(p.E, currentRedshift, newRedshift))

\* SimProp::buildInitialStates: m_size particles of random redshift and
\* energy; the Evolutor of evolveProtons.cpp is not built
SimPropInit ==
    /\ m_stack = <<>>
    /\ m_continuousLosses = <<>>
    /\ m_pppcmb = 0
    /\ out = <<>>
    /\ nActive = 0
    /\ pc = "none"
    /\ last = NoStep
    /\ \E size \in 0..MaxParticles :
        m_particles \in [1..size -> {State(z, E) : z \in 0..SimMaxZ,
                                                   E \in SimEnergies}]
    /\ particleIt = 0
    /\ simPc = "start"
    /\ evolved = NoEvolve

\* ParticleStack::iterator it = m_particles.begin()
SimPropRunBegin ==
    /\ simPc = "start"
    /\ particleIt' = 1
    /\ simPc' = "loop"
    /\ UNCHANGED <<m_particles, evolved>>
    /\ UNCHANGED evolutorVars

\* an iteration in which find_if finds a propagating particle
SimPropRunEvolve ==
    /\ simPc = "loop"
    /\ particleIt # Len(m_particles) + 1
    /\ LET it == FindPropagating(m_particles)
       IN  /\ it <= Len(m_particles)
           /\ particleIt' = it
           /\ evolved' = [it |-> it, onEnd |-> FALSE,
                          propagates |-> DoPropagate(m_particles[it])]
           /\ m_particles' = [m_particles EXCEPT ![it] = Evolve(m_particles[it])]
    /\ UNCHANGED simPc
    /\ UNCHANGED evolutorVars

\* an iteration in which find_if returns end(): Evolve(it) reads and writes
\* through the end iterator, one past the reserved storage.  The behaviour
\* is undefined: the process is killed, or the access lands outside the
\* population and the loop test ends the loop
SimPropRunEvolveEnd ==
    /\ simPc = "loop"
    /\ particleIt # Len(m_particles) + 1
    /\ LET it == FindPropagating(m_particles)
       IN  /\ it = Len(m_particles) + 1
           /\ particleIt' = it
           /\ evolved' = [it |-> it, onEnd |-> TRUE, propagates |-> FALSE]
    /\ simPc' \in {"crashed", "loop"}
    /\ UNCHANGED m_particles
    /\ UNCHANGED evolutorVars

\* while (it != m_particles.end()) ends; dumpParticles
SimPropRunExit ==
    /\ simPc = "loop"
    /\ particleIt = Len(m_particles) + 1
    /\ simPc' = "done"
    /\ UNCHANGED <<m_particles, particleIt, evolved>>
    /\ UNCHANGED evolutorVars

SimPropNext ==
    SimPropRunBegin \/ SimPropRunEvolve \/ SimPropRunEvolveEnd \/ SimPropRunExit

SimPropSpec == SimPropInit /\ [][SimPropNext]_vars

(***************************************************************************)
(* Helpers of the properties.                                              *)
(***************************************************************************)
\* how often particle p occurs in a sequence
Count(p, stack) == Cardinality({i \in 1..Len(stack) : stack[i] = p})

Range(stack) == {stack[i] : i \in 1..Len(stack)}

\* the Active particles of the population
ActiveParticles == {p \in Range(m_stack) : IsActive(p)}

\* this step is an iteration of the loop (each one writes its record)
Iterated == Len(out') = Len(out) + 1

PositiveRates ==
    /\ m_pppcmb > 0
    /\ m_continuousLosses # <<>>
    /\ \A i \in 1..Len(m_continuousLosses), Gamma \in 1..(2 * MaxGamma),
          zh \in 0..(2 * MaxZ) :
            dlnGamma_dt(m_continuousLosses[i], proton, Gamma, zh) > 0

\* C2: from a finite population, with positive loss and interaction rates
\* and final states of strictly lower Lorentz factor, run() reaches a state
\* with zero Active particles after finitely many iterations.
C2_ReachesZeroActive ==
    PositiveRates => <>(CountActive(m_stack) = 0)

\* what does hold: run() stops, with no Active particle left or aborted
C2_Stops == <>(pc = "done" \/ pc = "aborted")

(***************************************************************************)
(* Population conservation.                                                *)
(***************************************************************************)
\* C3: a stochastic step removes exactly the selected particle and adds
\* exactly the particles finalState returned, each once; every other
\* particle stays, unchanged, and the size changes by |finalState| - 1.
C3_PopulationConserved ==
    [][(Iterated /\ last'.branch = "stochastic") =>
        LET selected == out'[Len(out')].particle
            fs == last'.finalState
        IN  /\ selected = m_stack[FindActive(m_stack)]
            /\ Len(m_stack') = Len(m_stack) + Len(fs) - 1
            /\ \A p \in Range(m_stack) \cup Range(m_stack') \cup Range(fs) :
                Count(p, m_stack') =
                    Count(p, m_stack) - (IF p = selected THEN 1 ELSE 0)
                        + Count(p, fs)
      ]_vars

\* a stochastic step on the second particle, the first one being inert, that
\* brings two products
C3_Witness ==
    /\ last.branch = "stochastic"
    /\ last.it = 2
    /\ Len(last.finalState) = 2
    /\ Len(m_stack) = 3

(***************************************************************************)
(* Step invariants.                                                        *)
(***************************************************************************)
\* C4: for every Active particle and every draw r in [0,1), r = 0 included,
\* dz_s > 0 and 0 < dz_c <= z_now, so no assertion of run() ever fails.
C4_StepInvariantsHold ==
    /\ pc # "aborted"
    /\ \A p \in ActiveParticles, r \in RandomNumbers :
        /\ AssertStochastic(computeStochasticRedshiftInterval(p, r))
        /\ AssertLosses(computeLossesRedshiftInterval(p), p.z)

(***************************************************************************)
(* Step bound.                                                             *)
(***************************************************************************)
\* the root finder's tolerance read as a loss fraction
ToleranceAsFraction == (rootTolerance * DGOne) \div ZOne

C7_RedshiftNonNegative ==
    /\ \A i \in 1..Len(m_stack) :
        /\ m_stack[i].z >= 0
        /\ IsActive(m_stack[i]) => m_stack[i].Gamma > 0
    /\ last.branch = "stochastic" => last.newZ >= 0
    /\ last.branch = "continuous" => last.newZ >= 0

\* an interaction at exactly the remaining redshift: finalState gets z = 0
C7_Witness ==
    /\ last.branch = "stochastic"
    /\ last.dz_s = last.before.z
    /\ last.newZ = 0
    /\ \E i \in 1..Len(m_stack) : m_stack[i].z = 0

(***************************************************************************)
(* Assertion failures.                                                     *)
(***************************************************************************)
\* C8: an iteration whose step invariant is violated (dz_s <= 0, dz_c <= 0
\* or dz_c > z_now) aborts run(): it leaves the population as it was, and no
\* later iteration runs; a run that completes has zero Active particles.
C8_AbortsWithoutStep ==
    /\ [][Iterated =>
            ((last'.dz_s <= 0 \/ last'.dz_c <= 0 \/ last'.dz_c > last'.before.z)
                => (m_stack' = m_stack /\ nActive' = nActive
                        /\ pc' = "aborted"))]_vars
    /\ [][pc = "aborted" => pc' = "aborted" /\ m_stack' = m_stack
                                /\ out' = out]_vars
    /\ [](pc = "done" => CountActive(m_stack) = 0)

\* a run aborted after it had advanced particles
C8_Witness ==
    /\ pc = "aborted"
    /\ last.branch = "abort"
    /\ last.dz_s <= 0
    /\ Len(out) >= 2
    /\ CountActive(m_stack) > 0

(***************************************************************************)
(* Zero losses.                                                            *)
(***************************************************************************)
\* every configured loss process returns 0 for every nucleus, Lorentz factor
\* and redshift
ZeroLosses ==
    \A i \in 1..Len(m_continuousLosses), Gamma \in 1..(2 * MaxGamma),
       zh \in 0..(2 * MaxZ) :
        dlnGamma_dt(m_continuousLosses[i], proton, Gamma, zh) = 0

\* C10: when every loss process returns 0, computeLossesRedshiftInterval
\* returns z_now for every particle, and every step of run() is a stochastic
\* step or a continuous step that takes the particle to redshift 0, after
\* which it is not Active.
C10_ZeroLossFullRange ==
    ZeroLosses =>
        /\ \A p \in ActiveParticles : computeLossesRedshiftInterval(p) = p.z
        /\ last.branch = "continuous" =>
            /\ last.dz_c = last.before.z
            /\ m_stack[last.it].z = 0
            /\ m_stack[last.it].Gamma = last.before.Gamma
            /\ ~IsActive(m_stack[last.it])

\* with a loss process configured that returns 0, a continuous step after a
\* stochastic one
C10_Witness ==
    /\ ZeroLosses
    /\ m_continuousLosses # <<>>
    /\ last.branch = "continuous"
    /\ last.before.z < MaxZ
    /\ m_stack[last.it].z = 0

(***************************************************************************)
(* Only Active particles are advanced.                                     *)
(***************************************************************************)
\* the positions at which two populations of one size differ
ChangedPositions(before, after) ==
    {i \in 1..Len(before) : after[i] # before[i]}

\* C11: in every iteration of run() a particle that is not Active is
\* neither modified nor removed, so it never becomes Active again; a
\* continuous step keeps the population size and changes the selected
\* particle only, which was Active.
C11_OnlyActiveAdvanced ==
    [][Iterated =>
        /\ \A p \in Range(m_stack) :
            ~IsActive(p) => Count(p, m_stack') >= Count(p, m_stack)
        /\ last'.branch = "continuous" =>
            /\ Len(m_stack') = Len(m_stack)
            /\ \A i \in ChangedPositions(m_stack, m_stack') :
                /\ IsActive(m_stack[i])
                /\ \A j \in 1..(i - 1) : ~IsActive(m_stack[j])
                /\ ChangedPositions(m_stack, m_stack') = {i}
        /\ last'.branch = "stochastic" =>
            \E i \in 1..Len(m_stack) :
                /\ IsActive(m_stack[i])
                /\ SubSeq(m_stack, 1, i - 1) \o SubSeq(m_stack, i + 1, Len(m_stack))
                     = SubSeq(m_stack', Len(last'.finalState) + 1, Len(m_stack'))]_vars

\* a continuous step on the second particle of a population whose first
\* particle is not Active any more
C11_Witness ==
    /\ last.branch = "continuous"
    /\ last.it = 2
    /\ ~IsActive(m_stack[1])
    /\ m_stack[2] # last.before

(***************************************************************************)
(* The records of the output sink.                                         *)
(***************************************************************************)
\* the latest record of the sink
LatestRecord(sink) == sink[Len(sink)]

\* C12: the record of an iteration carries the branch the iteration took:
\* when an iteration and the one after it take different branches, one
\* the continuous and the other the stochastic one, their records carry
\* different markers.
C12_MarkerTellsBranch ==
    [][(/\ Iterated
        /\ {last.branch, last'.branch} = {"continuous", "stochastic"})
            => LatestRecord(out').marker # LatestRecord(out).marker]_vars

(***************************************************************************)
(* The branch rule.                                                        *)
(***************************************************************************)
\* C13: an iteration that passes both asserts takes the continuous branch
\* exactly when dz_s > dz_c or dz_s > z_now, dz_s and dz_c being the two
\* candidate steps of the selected particle; the continuous branch leaves
\* the particle in place at (z_now - dz_c, Gamma * (1 - computeDeltaGamma(
\* particle, dz_c))), the stochastic branch hands finalState z_now - dz_s.
C13_BranchRule ==
    last.branch \in {"continuous", "stochastic"} =>
        /\ last.dz_s = computeStochasticRedshiftInterval(last.before, last.r)
        /\ last.dz_c = computeLossesRedshiftInterval(last.before)
        /\ last.branch = "continuous"
            <=> (last.dz_s > last.dz_c \/ last.dz_s > last.before.z)
        /\ last.branch = "continuous" =>
            /\ last.deltaGamma = computeDeltaGamma(last.before, last.dz_c)
            /\ m_stack[last.it] =
                 [pid |-> last.before.pid,
                  z |-> last.before.z - last.dz_c,
                  Gamma |-> (last.before.Gamma * (DGOne - last.deltaGamma))
                                \div DGOne]
        /\ last.branch = "stochastic" =>
            /\ last.newZ = last.before.z - last.dz_s
            /\ last.finalState \in finalState(last.before, last.newZ)
            /\ SubSeq(m_stack, 1, Len(last.finalState)) = last.finalState

\* a continuous step of a particle that loses energy, taken because the
\* losses step is the shorter of two candidates inside the remaining range
C13_Witness ==
    /\ last.branch = "continuous"
    /\ last.dz_c < last.dz_s
    /\ last.dz_s <= last.before.z
    /\ last.deltaGamma > 0

\* C14: every iteration of run() appends exactly one record to the sink,
\* after the records of the earlier iterations: the state, before the
\* iteration changes anything, of the particle the iteration selects, which
\* is the first Active one. Nothing else writes to the sink, so the sink
\* holds one record per iteration, in step order.
C14_OneRecordPerIteration ==
    [][/\ (pc = "loop" /\ nActive > 0) =>
            \E i \in 1..Len(m_stack) :
                /\ IsActive(m_stack[i])
                /\ \A j \in 1..(i - 1) : ~IsActive(m_stack[j])
                /\ Len(out') = Len(out) + 1
                /\ SubSeq(out', 1, Len(out)) = out
                /\ LatestRecord(out').particle = m_stack[i]
       /\ ~(pc = "loop" /\ nActive > 0) => out' = out]_vars

\* three records, the latest of a particle that the step then changed
C14_Witness ==
    /\ Len(out) = 3
    /\ last.branch = "continuous"
    /\ LatestRecord(out).particle = last.before
    /\ m_stack[last.it] # last.before
    /\ out[1].particle # out[2].particle

(***************************************************************************)
(* The loss fraction.                                                      *)
(***************************************************************************)
\* the rate of all configured processes together at half-unit redshift zh
RECURSIVE TotalRate(_, _, _, _)
TotalRate(n, pid, Gamma, zh) ==
    IF n = 0 THEN 0
    ELSE TotalRate(n - 1, pid, Gamma, zh)
            + dlnGamma_dt(m_continuousLosses[n], pid, Gamma, zh)

\* C15: for every Active particle and every step dz in [0, z_now],
\* computeDeltaGamma(particle, dz) is dz * dtdz(z_now) * (now + 4 * half +
\* next) / 6, where now, half and next are the sums over all configured
\* processes of dlnGamma_dt at z_now, z_now - dz/2 and z_now - dz; and
\* computeDeltaGamma(particle, 0) is 0.
C15_SimpsonLossFraction ==
    \A p \in ActiveParticles :
        /\ computeDeltaGamma(p, 0) = 0
        /\ \A dz \in 0..p.z :
            LET n == Len(m_continuousLosses)
                now == TotalRate(n, p.pid, p.Gamma, 2 * p.z)
                half == TotalRate(n, p.pid, p.Gamma, 2 * p.z - dz)
                next == TotalRate(n, p.pid, p.Gamma, 2 * p.z - 2 * dz)
            IN  computeDeltaGamma(p, dz)
                    = (dz * dtdz(p.z) * (now + 4 * half + next)) \div 6

\* two processes that both contribute, with rates that differ along the
\* step, applied in a continuous step
C15_Witness ==
    /\ Len(m_continuousLosses) = 2
    /\ last.branch = "continuous"
    /\ last.deltaGamma > 0
    /\ \A i \in 1..2 :
        /\ dlnGamma_dt(m_continuousLosses[i], proton, last.before.Gamma,
                       2 * last.before.z) > 0
        /\ dlnGamma_dt(m_continuousLosses[i], proton, last.before.Gamma,
                       2 * last.before.z)
             # dlnGamma_dt(m_continuousLosses[i], proton, last.before.Gamma,
                           2 * (last.before.z - last.dz_c))
    /\ \E p \in ActiveParticles : computeDeltaGamma(p, p.z) > 0

(***************************************************************************)
(* The clamp of the pair-production rate.                                  *)
(***************************************************************************)
\* every configured PairProductionLosses returns, for the given species, a
\* rate that is not negative, over every Lorentz factor and redshift
ClampedFor(pid) ==
    \A i \in 1..Len(m_continuousLosses) :
        m_continuousLosses[i].kind = "PairProductionLosses" =>
            \A Gamma \in 1..(2 * MaxGamma), zh \in 0..(2 * MaxZ) :
                /\ dlnGamma_dt(m_continuousLosses[i], pid, Gamma, zh) # NaN
                /\ dlnGamma_dt(m_continuousLosses[i], pid, Gamma, zh) >= 0

\* C16: PairProductionLosses::dlnGamma_dt returns a rate >= 0 for every
\* particle species, Lorentz factor and redshift, whatever the sign of the
\* value before the clamp.
C16_RateNeverNegative == \A pid \in PIDs : ClampedFor(pid)

\* what does hold: the clamp works for every species of nonzero charge,
\* also where the field integral is negative
C16_ClampedForCharged ==
    \A pid \in PIDs : getPidNucleusCharge(pid) # 0 => ClampedFor(pid)

(***************************************************************************)
(* The bracket of the root finder.                                         *)
(***************************************************************************)
\* C17: whenever computeLossesRedshiftInterval calls the root finder for a
\* particle, [0, z_now] brackets a root of f(x) = computeDeltaGamma(
\* particle, x) - critical: f(0) = -critical < 0 and f(z_now) > 0.
C17_BracketHoldsRoot ==
    \A p \in ActiveParticles \cup {q \in {last.before} : last.branch # "none"} :
        RootFinderInvoked(p) =>
            /\ RootFunction(p, 0) = 0 - deltaGammaCritical
            /\ RootFunction(p, 0) < 0
            /\ RootFunction(p, p.z) > 0

\* an iteration whose losses step came from the root finder
C17_Witness ==
    /\ last.branch = "continuous"
    /\ RootFinderInvoked(last.before)
    /\ last.dz_c < last.before.z
    /\ last.dz_c = rootFinder([x \in 0..last.before.z |->
                                  RootFunction(last.before, x)],
                              0, last.before.z, rootMaxIter, rootTolerance)

(***************************************************************************)
(* The processing order.                                                   *)
(***************************************************************************)
\* the positions of the products of the latest stochastic step
ProductPositions == 1..Len(last.finalState)

\* C18: a stochastic step leaves the products at the front of the
\* population, in the order finalState returned them, followed by the
\* remaining particles in their previous order; and when a product of the
\* latest step is Active, the next iteration selects a product, the first
\* Active one, before any Active particle that was there before.
C18_ProductsFirst ==
    [][Iterated =>
        /\ last'.branch = "stochastic" =>
            m_stack' = last'.finalState
                        \o SubSeq(m_stack, 1, last'.it - 1)
                        \o SubSeq(m_stack, last'.it + 1, Len(m_stack))
        /\ (/\ last.branch = "stochastic"
            /\ \E i \in ProductPositions : IsActive(m_stack[i])) =>
                /\ last'.it \in ProductPositions
                /\ last'.before = last.finalState[last'.it]
                /\ LatestRecord(out').particle = last.finalState[last'.it]
                /\ \A j \in 1..(last'.it - 1) : ~IsActive(last.finalState[j])]_vars

\* a stochastic step has left an Active product in front of an older
\* Active particle, and the loop goes on
C18_Witness ==
    /\ last.branch = "stochastic"
    /\ pc = "loop"
    /\ \E i \in ProductPositions : IsActive(m_stack[i])
    /\ \E i \in (Len(last.finalState) + 1)..Len(m_stack) :
        /\ IsActive(m_stack[i])
        /\ m_stack[i].z > last.newZ

(***************************************************************************)
(* The iterator of SimProp::run.                                           *)
(***************************************************************************)
\* C19: every call of Evolve in SimProp::run is made on a particle of
\* m_particles for which DoPropagate holds, never on the end iterator:
\* also in the iteration in which no propagating particle is left, and
\* with an empty population.
C19_EvolveOnPropagating ==
    evolved.it # 0 =>
        /\ ~evolved.onEnd
        /\ evolved.it \in 1..Len(m_particles)
        /\ evolved.propagates

\* what does hold: with an empty population Evolve is not called at all,
\* and a call that is made on a particle is made on a propagating one
C19_EmptyNeverEvolves ==
    /\ m_particles = <<>> => evolved.it = 0
    /\ (evolved.it # 0 /\ ~evolved.onEnd) => evolved.propagates

====
